---- MODULE Spec2Model ----
(***************************************************************************)
(* A model of static/likes.js: the click handler toggleLike of the         *)
(* "favorite" control, the requests it issues through the shared HTTP      *)
(* client, and the class lists of the icons it rewrites when a response    *)
(* arrives.                                                                *)
(*                                                                         *)
(* JavaScript runs a handler to completion up to its first await, so the   *)
(* part of toggleLike before `await` (lines 9-17) is one step, Click, and  *)
(* the continuation after it (lines 19-24) is another, Resolve.  A         *)
(* rejected promise throws out of the await and skips the continuation:    *)
(* Reject.  Between the two steps any other handler may run.               *)
(***************************************************************************)
EXTENDS Integers, Sequences, FiniteSets, TLC

\* The number of click events dispatched in one run of the model.
MaxClicks == 2

\* likes.js:3
BASE_URL == "http://localhost:5001/api"

\* The page markup: one like-form per message, named here by its
\* data-message-id attribute; each wraps one .fav-button and one .fav-icon.
LikeForms == {"42", "7"}

\* Document order of the like-forms: jQuery selections keep it.
DocumentOrder == <<"42", "7">>

\* Values a data-csrf attribute may hold.
Tokens == {"tokA", "tokB"}

\* axios.defaults.headers.common has no X-CSRFToken entry before the first
\* invocation.
Unset == "unset"

\* The classes the handler names, and one it does not.
StarClasses == {"bi-star", "bi-star-fill", "text-warning"}
Classes == StarClasses \cup {"bi"}

\* Class lists an icon may have at page load: the two the templates render,
\* with and without a further class, and lists that are neither.
InitialClassLists ==
    { {"bi-star"}, {"bi-star-fill", "text-warning"},
      {"bi", "bi-star"}, {"bi", "bi-star-fill", "text-warning"},
      {}, StarClasses, {"bi", "text-warning"}, {"bi-star", "bi-star-fill"} }

VARIABLES
    dataCsrf,    \* form -> the data "csrf" of the .fav-button in that form
    icon,        \* form -> class list (a set) of the .fav-icon in that form
    headers,     \* axios.defaults.headers.common["X-CSRFToken"]
    calls,       \* the invocations of toggleLike, in click order
    requests,    \* the requests handed to the network, in the order issued
    clicks,      \* number of click events dispatched to .fav-button elements
    arrivals,    \* indices of calls whose response was processed, in arrival order
    icon0,       \* the class lists at page load
    liked,       \* server: message -> whether the user likes it
    processed    \* server: indices of calls whose request it applied, in order

vars == <<dataCsrf, icon, headers, calls, requests, clicks, arrivals, icon0,
          liked, processed>>

----------------------------------------------------------------------------
\* Pure parts of the handler.

\* likes.js:4  $(".fav-button") : every button of the page.
favButton == LikeForms

FavIconFirstOnly == {DocumentOrder[1]}
\* likes.js:5  $(".fav-icon") : every icon of the page.
favIcon == LikeForms

NoPreventDefault == FALSE
\* likes.js:9  evt.preventDefault() sets the event's defaultPrevented flag.
PreventDefault == TRUE

\* jQuery's .data() turns an attribute that reads as a number into the number.
AttrToData == [a \in LikeForms |-> CASE a = "42" -> 42 [] a = "7" -> 7]

\* likes.js:11  $(evt.target).closest(".like-form").data("message-id"):
\* the target is the button of like-form `target`.
MessageIdOf(target) == AttrToData[target]

\* likes.js:12  $favButton.data("csrf"): the getter of a selection reads
\* its first element.
CsrfOf(data) == data[DocumentOrder[1]]

SetHeaderIfUnset(old, token) == IF old = Unset THEN token ELSE old
\* likes.js:16  axios.defaults.headers.common["X-CSRFToken"] = csrf_token
SetDefaultHeader(old, token) == token

\* likes.js:17  the template literal `${BASE_URL}/messages/${messageId}/like`
Url(messageId) == BASE_URL \o "/messages/" \o ToString(messageId) \o "/like"

\* likes.js:17  axios.post(url): the request carries the default headers as
\* they are when post is called.
AxiosPost(url, defaultHeader) ==
    [method |-> "POST", url |-> url, csrf |-> defaultHeader]

IconAfterSwapped(classes, favorited) ==
    IF favorited = TRUE
      THEN (classes \ {"bi-star-fill", "text-warning"}) \cup {"bi-star"}
      ELSE (classes \ {"bi-star"}) \cup {"bi-star-fill", "text-warning"}
IconAfterKeepsWarning(classes, favorited) ==
    IF favorited = TRUE
      THEN (classes \ {"bi-star"}) \cup {"bi-star-fill", "text-warning"}
      ELSE (classes \ {"bi-star-fill"}) \cup {"bi-star"}
\* likes.js:19-24  the class list of one icon after the response.  The
\* favorited field is a boolean, on which `== true` is the identity.
IconAfter(classes, favorited) ==
    IF favorited = TRUE
      THEN (classes \ {"bi-star"}) \cup {"bi-star-fill", "text-warning"}
      ELSE (classes \ {"bi-star-fill", "text-warning"}) \cup {"bi-star"}

----------------------------------------------------------------------------
\* State.

Starred(classes) ==
    /\ "bi-star-fill" \in classes
    /\ "text-warning" \in classes
    /\ "bi-star" \notin classes

Unstarred(classes) ==
    /\ "bi-star" \in classes
    /\ "bi-star-fill" \notin classes
    /\ "text-warning" \notin classes

Pending(i) == calls[i].state = "pending"

Idle == \A i \in 1..Len(calls) : ~Pending(i)

Init ==
    /\ dataCsrf \in [LikeForms -> Tokens]
    /\ icon \in [LikeForms -> InitialClassLists]
    /\ icon0 = icon
    /\ headers = Unset
    /\ calls = <<>>
    /\ requests = <<>>
    /\ clicks = 0
    /\ arrivals = <<>>
    /\ liked = [m \in LikeForms |-> FALSE]
    /\ processed = <<>>

\* The same page in front of the like server, whose state is arbitrary.
InitServer ==
    /\ dataCsrf \in [LikeForms -> Tokens]
    /\ icon \in [LikeForms -> {{"bi-star"}, {"bi-star-fill", "text-warning"}}]
    /\ icon0 = icon
    /\ headers = Unset
    /\ calls = <<>>
    /\ requests = <<>>
    /\ clicks = 0
    /\ arrivals = <<>>
    /\ liked \in [LikeForms -> BOOLEAN]
    /\ processed = <<>>

----------------------------------------------------------------------------
\* Actions.

\* likes.js:28 and 8-17: a click on the button of like-form `target` runs
\* toggleLike up to its await.
Click(target) ==
    /\ clicks < MaxClicks
    /\ target \in favButton
    /\ LET messageId  == MessageIdOf(target)
           csrf_token == CsrfOf(dataCsrf)
           newHeader  == SetDefaultHeader(headers, csrf_token)
           request    == AxiosPost(Url(messageId), newHeader)
       IN  /\ clicks' = clicks + 1
           /\ headers' = newHeader
           /\ requests' = Append(requests, request)
           /\ calls' = Append(calls,
                  [target |-> target,
                   defaultPrevented |-> PreventDefault,
                   messageId |-> messageId,
                   csrf_token |-> csrf_token,
                   req |-> Len(requests) + 1,
                   state |-> "pending",
                   favorited |-> FALSE,
                   served |-> FALSE])
    /\ UNCHANGED <<dataCsrf, icon, arrivals, icon0, liked, processed>>

ResolveFirstResponseOnly(i, favorited) ==
    /\ i \in 1..Len(calls)
    /\ Pending(i)
    /\ calls' = [calls EXCEPT ![i].state = "resolved", ![i].favorited = favorited]
    /\ icon' = [e \in LikeForms |->
                  IF e \in favIcon /\ arrivals = <<>>
                    THEN IconAfter(icon[e], favorited) ELSE icon[e]]
    /\ arrivals' = Append(arrivals, i)
    /\ UNCHANGED <<dataCsrf, headers, requests, clicks, icon0, liked, processed>>
ResolveAndRestoreHeader(i, favorited) ==
    /\ i \in 1..Len(calls)
    /\ Pending(i)
    /\ calls' = [calls EXCEPT ![i].state = "resolved", ![i].favorited = favorited]
    /\ icon' = [e \in LikeForms |->
                  IF e \in favIcon THEN IconAfter(icon[e], favorited) ELSE icon[e]]
    /\ arrivals' = Append(arrivals, i)
    /\ headers' = Unset
    /\ UNCHANGED <<dataCsrf, requests, clicks, icon0, liked, processed>>
ResolveLatestClickOnly(i, favorited) ==
    /\ i \in 1..Len(calls)
    /\ Pending(i)
    /\ calls' = [calls EXCEPT ![i].state = "resolved", ![i].favorited = favorited]
    /\ icon' = [e \in LikeForms |->
                  IF e \in favIcon /\ i = Len(calls)
                    THEN IconAfter(icon[e], favorited) ELSE icon[e]]
    /\ arrivals' = Append(arrivals, i)
    /\ UNCHANGED <<dataCsrf, headers, requests, clicks, icon0, liked, processed>>
\* likes.js:17-24: the response of call i arrives with resp.data.favorited =
\* favorited, and the continuation rewrites every selected icon.
Resolve(i, favorited) ==
    /\ i \in 1..Len(calls)
    /\ Pending(i)
    /\ calls' = [calls EXCEPT ![i].state = "resolved", ![i].favorited = favorited]
    /\ icon' = [e \in LikeForms |->
                  IF e \in favIcon THEN IconAfter(icon[e], favorited) ELSE icon[e]]
    /\ arrivals' = Append(arrivals, i)
    /\ UNCHANGED <<dataCsrf, headers, requests, clicks, icon0, liked, processed>>

RejectAndUnstar(i) ==
    /\ i \in 1..Len(calls)
    /\ Pending(i)
    /\ calls' = [calls EXCEPT ![i].state = "rejected"]
    /\ icon' = [e \in LikeForms |-> IconAfter(icon[e], FALSE)]
    /\ UNCHANGED <<dataCsrf, headers, requests, clicks, arrivals, icon0,
                   liked, processed>>
RejectAndRetry(i) ==
    /\ i \in 1..Len(calls)
    /\ Pending(i)
    /\ requests' = Append(requests, requests[calls[i].req])
    /\ calls' = [calls EXCEPT ![i].req = Len(requests) + 1]
    /\ UNCHANGED <<dataCsrf, icon, headers, clicks, arrivals, icon0,
                   liked, processed>>
\* likes.js:17: the promise of call i rejects (network failure, non-2xx
\* status); the await throws, nothing catches it, lines 19-24 do not run.
Reject(i) ==
    /\ i \in 1..Len(calls)
    /\ Pending(i)
    /\ calls' = [calls EXCEPT ![i].state = "rejected"]
    /\ UNCHANGED <<dataCsrf, icon, headers, requests, clicks, arrivals, icon0,
                   liked, processed>>

\* The page (outside likes.js) stores another token in the data of a button.
SetData(b, token) ==
    /\ b \in LikeForms
    /\ token \in Tokens
    /\ dataCsrf[b] # token
    /\ dataCsrf' = [dataCsrf EXCEPT ![b] = token]
    /\ UNCHANGED <<icon, headers, calls, requests, clicks, arrivals, icon0,
                   liked, processed>>

\* The like server takes the request of call i: it flips the like state of
\* the message and answers with the new state.
Serve(i) ==
    /\ i \in 1..Len(calls)
    /\ Pending(i)
    /\ ~calls[i].served
    /\ liked' = [liked EXCEPT ![calls[i].target] = ~liked[calls[i].target]]
    /\ calls' = [calls EXCEPT ![i].served = TRUE,
                              ![i].favorited = ~liked[calls[i].target]]
    /\ processed' = Append(processed, i)
    /\ UNCHANGED <<dataCsrf, icon, headers, requests, clicks, arrivals, icon0>>

\* The answer of the like server to call i arrives.
Answer(i) ==
    /\ i \in 1..Len(calls)
    /\ calls[i].served
    /\ Resolve(i, calls[i].favorited)

\* Any server: every response is possible.
Next ==
    \/ \E target \in LikeForms : Click(target)
    \/ \E i \in 1..MaxClicks, favorited \in BOOLEAN : Resolve(i, favorited)
    \/ \E i \in 1..MaxClicks : Reject(i)
    \/ \E b \in LikeForms, token \in Tokens : SetData(b, token)

Spec == Init /\ [][Next]_vars

\* The like server that flips.
NextServer ==
    \/ \E target \in LikeForms : Click(target)
    \/ \E i \in 1..MaxClicks : Serve(i)
    \/ \E i \in 1..MaxClicks : Answer(i)
    \/ \E i \in 1..MaxClicks : Reject(i)

SpecServer == InitServer /\ [][NextServer]_vars

----------------------------------------------------------------------------
\* Properties.

Resolved(i) == calls[i].state = "resolved"
Rejected(i) == calls[i].state = "rejected"

\* Steps of one call, seen from outside.
ClickStep == Len(calls') = Len(calls) + 1
ResolveStep(i) == Pending(i) /\ calls'[i].state = "resolved"
RejectStep(i) == Pending(i) /\ calls'[i].state = "rejected"

\* The address the page's markup and likes.js:3 give for like-form f.
LikeUrl(f) == "http://localhost:5001/api/messages/" \o f \o "/like"

\* favorited of the response that arrived last.
LastFavorited == calls[arrivals[Len(arrivals)]].favorited

Shows(classes, favorited) ==
    IF favorited THEN Starred(classes) ELSE Unstarred(classes)

\* C1: every click issues exactly one POST, to the like address of the
\* message of the clicked form; the number of requests issued always equals
\* the number of clicks, whatever was pending, resolved or rejected.
C1_OneRequestPerClick ==
    /\ Len(requests) = clicks
    /\ Len(calls) = clicks
    /\ \A i \in 1..Len(calls) :
         /\ calls[i].req \in 1..Len(requests)
         /\ requests[calls[i].req].method = "POST"
         /\ requests[calls[i].req].url = LikeUrl(calls[i].target)
    /\ \A i, j \in 1..Len(calls) : i # j => calls[i].req # calls[j].req

\* A second click made while the first request was pending, then rejected.
C1_Witness ==
    /\ Len(calls) = 2
    /\ Pending(1)
    /\ Rejected(2)
    /\ calls[1].target = "42"
    /\ calls[2].target = "7"
    /\ Len(requests) = 2

\* C2: the request of every invocation carries, as X-CSRFToken, the token
\* that invocation read from the button's data.
C2_HeaderIsTokenRead ==
    \A i \in 1..Len(calls) :
        /\ calls[i].req \in 1..Len(requests)
        /\ requests[calls[i].req].csrf = calls[i].csrf_token
        /\ requests[calls[i].req].csrf \in Tokens

\* Two overlapping invocations that read different tokens.
C2_Witness ==
    /\ Len(calls) = 2
    /\ Pending(1)
    /\ Pending(2)
    /\ calls[1].csrf_token # calls[2].csrf_token
    /\ requests[calls[1].req].csrf = calls[1].csrf_token
    /\ requests[calls[2].req].csrf = calls[2].csrf_token

\* C3: the step that processes a successful response leaves the icon
\* starred when favorited is true and unstarred when it is not, whatever the
\* classes were before.
C3_ResponseSetsIcon ==
    [][\A i \in 1..Len(calls) :
          ResolveStep(i) =>
              \A e \in LikeForms :
                  IF calls'[i].favorited
                    THEN /\ "bi-star-fill" \in icon'[e]
                         /\ "text-warning" \in icon'[e]
                         /\ "bi-star" \notin icon'[e]
                    ELSE /\ "bi-star" \in icon'[e]
                         /\ "bi-star-fill" \notin icon'[e]
                         /\ "text-warning" \notin icon'[e]]_vars

\* One response, favorited, processed on an icon that had all three classes.
C3_Witness ==
    /\ Len(arrivals) = 1
    /\ LastFavorited = TRUE
    /\ \E e \in LikeForms : icon0[e] = StarClasses /\ Starred(icon[e])
    /\ \E e \in LikeForms : icon0[e] = {} /\ Starred(icon[e])

\* C4: the event of every invocation has its default action suppressed, and
\* every request issued belongs to an invocation whose event has; pending,
\* resolved or rejected makes no difference.
C4_DefaultPrevented ==
    /\ Len(calls) = clicks
    /\ \A i \in 1..Len(calls) : calls[i].defaultPrevented
    /\ \A k \in 1..Len(requests) :
         \E i \in 1..Len(calls) : calls[i].req = k /\ calls[i].defaultPrevented

\* One invocation resolved, one rejected.
C4_Witness ==
    /\ \E i \in 1..Len(calls) : Resolved(i) /\ calls[i].defaultPrevented
    /\ \E i \in 1..Len(calls) : Rejected(i) /\ calls[i].defaultPrevented

\* C5: neither the click nor the delivery of a rejection changes any icon,
\* and the rejection issues no request and touches no header; the only step
\* that changes an icon is the processing of a successful response.
C5_RejectionChangesNothing ==
    [][/\ \A i \in 1..Len(calls) :
            RejectStep(i) =>
                /\ icon' = icon
                /\ requests' = requests
                /\ headers' = headers
                /\ Len(calls') = Len(calls)
       /\ ClickStep => icon' = icon
       /\ icon' # icon => \E j \in 1..Len(calls) : ResolveStep(j)]_vars

\* A rejected request, with the icons as they were at page load.
C5_Witness ==
    /\ Len(calls) = 1
    /\ Rejected(1)
    /\ icon = icon0
    /\ Len(requests) = 1

\* C6: once no request is in flight, every icon shows the favorited value of
\* the response that arrived last, or is as at page load if none arrived.
C6_LastArrivalWins ==
    Idle =>
        \A e \in LikeForms :
            IF arrivals = <<>>
              THEN icon[e] = icon0[e]
              ELSE Shows(icon[e], LastFavorited)

\* The response to the first click arrived after that to the second, with
\* the other value.
C6_Witness ==
    /\ Idle
    /\ arrivals = <<2, 1>>
    /\ calls[1].favorited # calls[2].favorited
    /\ \A e \in LikeForms : Shows(icon[e], calls[1].favorited)

\* C7: in front of the server that flips, the icon can differ from the
\* server's state once nothing is in flight; it does not when every request
\* the server applied was answered and the answers arrived in the order the
\* server applied them.
C7_NoDriftInOrder ==
    (Idle /\ arrivals # <<>> /\ arrivals = processed) =>
        LET m == calls[processed[Len(processed)]].target
        IN  Shows(icon[m], liked[m])

\* Two clicks on one message, applied in click order, answered in the
\* reverse order.
C7_DriftByReorder ==
    /\ Idle
    /\ Len(calls) = 2
    /\ calls[1].target = "42"
    /\ calls[2].target = "42"
    /\ processed = <<1, 2>>
    /\ arrivals = <<2, 1>>
    /\ ~Shows(icon["42"], liked["42"])
    /\ Shows(icon0["42"], liked["42"])

\* One click, applied by the server, its response rejected.
C7_DriftByLoss ==
    /\ Len(calls) = 1
    /\ calls[1].target = "42"
    /\ processed = <<1>>
    /\ Rejected(1)
    /\ ~Shows(icon["42"], liked["42"])
    /\ Shows(icon0["42"], ~liked["42"])

\* C8: after the first invocation the default X-CSRFToken header is set, to
\* the token the most recent invocation read; no response clears it.
C8_HeaderOutlives ==
    clicks > 0 =>
        /\ headers # Unset
        /\ headers = calls[Len(calls)].csrf_token

\* Both requests are over, the header still holds the second token, which is
\* neither the first token nor the one the button holds now.
C8_Witness ==
    /\ Len(calls) = 2
    /\ Resolved(1)
    /\ Rejected(2)
    /\ calls[1].csrf_token # calls[2].csrf_token
    /\ headers = calls[2].csrf_token
    /\ CsrfOf(dataCsrf) # headers

\* C9: an icon that was starred or unstarred at page load is always one of
\* the two, and the classes the handler does not name are those of page load.
C9_TwoVisualStates ==
    \A e \in LikeForms :
        /\ (Starred(icon0[e]) \/ Unstarred(icon0[e])) =>
              /\ Starred(icon[e]) \/ Unstarred(icon[e])
              /\ "bi-star" \in icon[e] <=> "bi-star-fill" \notin icon[e]
              /\ "bi-star" \in icon[e] <=> "text-warning" \notin icon[e]
        /\ icon[e] \ StarClasses = icon0[e] \ StarClasses

\* An icon with a further class went from starred to unstarred.
C9_Witness ==
    /\ Len(arrivals) = 2
    /\ \E e \in LikeForms :
         /\ icon0[e] = {"bi", "bi-star-fill", "text-warning"}
         /\ icon[e] = {"bi", "bi-star"}

C10_AllIconsAlike ==
    arrivals # <<>> =>
        \A e \in LikeForms : Shows(icon[e], LastFavorited)

C10_Step ==
    /\ \A i \in 1..Len(calls) :
         ResolveStep(i) =>
            \A e \in LikeForms \ {calls[i].target} :
                icon'[e] \cap StarClasses = icon'[calls[i].target] \cap StarClasses
    /\ ClickStep =>
         LET c == calls'[Len(calls')]
         IN  /\ requests'[c.req].url = LikeUrl(c.target)
             /\ requests'[c.req].csrf = dataCsrf[DocumentOrder[1]]

\* C10: a successful response to a click in one form sets the star classes
\* of every icon of the page, so all icons agree after any response; of the
\* request, the address follows the clicked form and the token does not.
C10_ModuleWideSelection == []C10_AllIconsAlike /\ [][C10_Step]_vars

\* A click in form 42 alone starred the icon of form 7.
C10_Witness ==
    /\ Len(calls) = 1
    /\ calls[1].target = "42"
    /\ Resolved(1)
    /\ Unstarred(icon0["7"])
    /\ Starred(icon["7"])
    /\ requests[1].url = LikeUrl("42")

====
